---- MODULE Spec2Model ----
(***************************************************************************)
(* EventListCardModals (talawa-admin): the edit session of one event card. *)
(* The component state (useState), its three useEffect hooks and its       *)
(* handlers are modelled as a state machine.  A Date is an instant counted *)
(* in half days since an epoch; a calendar date ('YYYY-MM-DD') is a day    *)
(* number.  React runs the effects of a commit after the render that       *)
(* changed their dependencies and before the next event is handled.        *)
(* The functions of utils/recurrenceUtils the card calls are operators;    *)
(* SpecUtils applies each of them to every argument of the data model.     *)
(* SpecRoutes is the routes reducer of the store under dispatched actions. *)
(***************************************************************************)
EXTENDS Integers, Sequences, FiniteSets, TLC

(* ------------------------------ bounds --------------------------------- *)
\* calendar days 1..MaxDay
MaxDay == 2
\* recurrence intervals 1..MaxInterval
MaxInterval == 2
\* update mutations awaiting their response
MaxInflight == 2
\* occurrence counts 1..MaxCount of a rule
MaxCount == 1
\* organization ids 1..MaxOrg
MaxOrg == 7
\* events 1..MaxEvents handed to the calendar
MaxEvents == 2
\* the calendar is navigated within MaxYears years
MaxYears == 2
\* the month index is followed up to MaxMonth
MaxMonth == 13
\* a post has up to MaxLikes likes when the card is built
MaxLikes == 2
\* like toggles are followed while the like count is within MaxDrift of the
\* initial one
MaxDrift == 2
\* a post has up to MaxComments comments when the card is built
MaxComments == 1
\* up to MaxCreates comments are created on a card
MaxCreates == 2

Days == 1..MaxDay
HalfDays == 0..1
\* the instants a Date of the form can hold
Instants == {2 * d + h : d \in Days, h \in HalfDays}
\* offset of local time from UTC, in half days (UTC, and 12 h west of it)
TzOffsets == {-1, 0}

(* --------------------------- recurrenceUtils --------------------------- *)
thisInstance == "thisInstance"
thisAndFollowingInstances == "thisAndFollowingInstances"
allInstances == "allInstances"
RecurringEventMutationType == {thisInstance, thisAndFollowingInstances, allInstances}

WEEKLY == "WEEKLY"
MONTHLY == "MONTHLY"
Frequencies == {WEEKLY, MONTHLY}

\* null / undefined in a field that otherwise holds a number or a date
Null == -1
\* undefined in a field that otherwise holds a mutation type
Undefined == "undefined"
\* eventListCardProps.recurrenceRule is <<>> (null) or <<rule>>
NoRule == <<>>

VARIABLES
  tz,                                      \* the browser's time zone
  propStartDate, propEndDate,              \* eventListCardProps.startDate / endDate
  propRecurring, propRule,                 \* eventListCardProps.recurring / recurrenceRule
  eventModalIsOpen,                        \* prop, owned by the parent card
  recurringchecked,
  recurringEventUpdateModalIsOpen,
  eventStartDate, eventEndDate,
  recurrenceRuleState,
  recurringEventUpdateType,
  recurringEventUpdateOptions,
  shouldShowRecurringEventUpdateOptions,
  recurrenceRuleChanged, instanceDatesChanged,
  mounted,                                 \* the mount effects have run
  depsModalOpen, depsChange, depsScope,    \* dependencies seen by the last commit
  updateInFlight,                          \* update mutations awaiting their response
  updateEventCall,                         \* <<variables>> of the updateEvent call the
                                           \* last step made, <<>> if it made none
  responseEffects,                         \* what the last step called after the await:
                                           \* toast.success, errorHandler, refetchEvents
  editedSinceOpen,                         \* history: the user edited the form or picked
                                           \* a scope since the modal was last opened
  utilCall, utilResult,                    \* a call of a recurrenceUtils function and
                                           \* what it returned
  routes, routesAction,                    \* the routes state of the store and the
                                           \* action last dispatched to its reducer
  eventDeleteModalIsOpen,
  recurringEventDeleteType,
  deleteInFlight,                          \* delete mutations awaiting their response
  deleteEventCall,                         \* <<variables>> of the deleteEvent call the
                                           \* last step made, <<>> if it made none
  eventData,                               \* prop: the events handed to the calendar
  orgData,                                 \* prop: <<[admins]>>, <<>> if undefined
  userRole, userId,                        \* props
  events,                                  \* useState: <<list>>, <<>> while null
  today,                                   \* new Date() of the renders
  currentYear, currentMonth, currentDate,  \* useState
  propLikeCount, propLiked,                \* props.likeCount, likedByUser
  likes, isLikedByUser,                    \* useState
  likeInFlight, unLikeInFlight,            \* likePost / unLikePost calls awaited
  toggleResponse,                          \* <<[mutation, outcome]>> of the response
                                           \* the last step handled, <<>> if none
  propComments, propCommentCount,          \* props.comments, props.commentCount
  comments, numComments, commentInput,     \* useState
  createInFlight,                          \* per awaited create call, the comments
                                           \* its closure holds
  nextCommentId,                           \* id the server gives the next comment
  likedLocally, dislikedLocally            \* history: ids of the comments whose last
                                           \* applied local change is a like / dislike

propVars == <<tz, propStartDate, propEndDate, propRecurring, propRule>>
formVars == <<recurringchecked, eventStartDate, eventEndDate, recurrenceRuleState>>
flagVars == <<recurrenceRuleChanged, instanceDatesChanged>>
scopeVars == <<recurringEventUpdateType, recurringEventUpdateOptions,
               shouldShowRecurringEventUpdateOptions>>
depVars == <<mounted, depsModalOpen, depsChange, depsScope>>
mutationVars == <<updateInFlight, updateEventCall, responseEffects>>
cardVars == <<propVars, eventModalIsOpen, recurringEventUpdateModalIsOpen, formVars,
              flagVars, scopeVars, depVars, mutationVars, editedSinceOpen>>
deleteVars == <<eventDeleteModalIsOpen, recurringEventDeleteType, deleteInFlight,
                deleteEventCall>>
utilVars == <<utilCall, utilResult>>
routeVars == <<routes, routesAction>>
filterVars == <<eventData, orgData, userRole, userId, events>>
dateVars == <<today, currentYear, currentMonth, currentDate>>
calendarVars == <<filterVars, dateVars>>
likeVars == <<propLikeCount, propLiked, likes, isLikedByUser, likeInFlight,
              unLikeInFlight, toggleResponse>>
commentVars == <<propComments, propCommentCount, comments, numComments, commentInput,
                 createInFlight, nextCommentId, likedLocally, dislikedLocally>>
postVars == <<likeVars, commentVars>>
\* the state of the other components
pageVars == <<calendarVars, postVars>>
\* what a step of the event card's edit flow leaves alone
otherVars == <<deleteVars, utilVars, routeVars, pageVars>>
vars == <<cardVars, deleteVars, utilVars, routeVars, pageVars>>

(* ------------------------------- dates --------------------------------- *)
\* new Date('YYYY-MM-DD'): midnight UTC of that day
NewDate(day) == 2 * day

\* dayjs(date).format('YYYY-MM-DD'): the calendar day in local time
FormatDate(t) == (t + tz) \div 2

\* Days[date.getDay()]
WeekDayOf(t) == FormatDate(t) % 7

\* mutant: the dates count as changed only when both differ
haveInstanceDatesChanged_BothDiffer(originalStart, originalEnd, newStart, newEnd) ==
  originalStart # newStart /\ originalEnd # newEnd

\* haveInstanceDatesChanged: either calendar date differs
haveInstanceDatesChanged(originalStart, originalEnd, newStart, newEnd) ==
  originalStart # newStart \/ originalEnd # newEnd

SeqToSet(s) == {s[i] : i \in 1..Len(s)}

RuleEndDay(rule) ==
  IF rule.recurrenceEndDate = Null THEN Null ELSE FormatDate(rule.recurrenceEndDate)

\* the rule state with its Dates as calendar dates, as the utils compare and print it
RuleOfState(ruleState) ==
  [ruleState EXCEPT !.recurrenceStartDate = FormatDate(@),
                    !.recurrenceEndDate = RuleEndDay(ruleState)]

\* mutant: an absent original rule counts as unchanged
hasRecurrenceRuleChanged_AbsentIsUnchanged(originalRule, editedRule) ==
  IF originalRule = NoRule \/ editedRule = NoRule
  THEN FALSE
  ELSE LET original == originalRule[1]
           edited == editedRule[1]
       IN \/ original.frequency # edited.frequency
          \/ original.interval # edited.interval
          \/ SeqToSet(original.weekDays) # SeqToSet(edited.weekDays)
          \/ original.recurrenceEndDate # edited.recurrenceEndDate
          \/ original.count # edited.count
          \/ original.weekDayOccurenceInMonth # edited.weekDayOccurenceInMonth

\* mutant: recurrenceStartDate is compared like the other fields
hasRecurrenceRuleChanged_ComparesStart(originalRule, editedRule) ==
  IF originalRule = NoRule \/ editedRule = NoRule
  THEN (originalRule = NoRule) # (editedRule = NoRule)
  ELSE LET original == originalRule[1]
           edited == editedRule[1]
       IN \/ original.frequency # edited.frequency
          \/ original.interval # edited.interval
          \/ SeqToSet(original.weekDays) # SeqToSet(edited.weekDays)
          \/ original.recurrenceStartDate # edited.recurrenceStartDate
          \/ original.recurrenceEndDate # edited.recurrenceEndDate
          \/ original.count # edited.count
          \/ original.weekDayOccurenceInMonth # edited.weekDayOccurenceInMonth

\* hasRecurrenceRuleChanged over two rules that are <<>> (absent) or <<rule>>:
\* recurrence turned on or off, or a compared field differs
hasRecurrenceRuleChanged(originalRule, editedRule) ==
  IF originalRule = NoRule \/ editedRule = NoRule
  THEN (originalRule = NoRule) # (editedRule = NoRule)
  ELSE LET original == originalRule[1]
           edited == editedRule[1]
       IN \/ original.frequency # edited.frequency
          \/ original.interval # edited.interval
          \/ SeqToSet(original.weekDays) # SeqToSet(edited.weekDays)
          \/ original.recurrenceEndDate # edited.recurrenceEndDate
          \/ original.count # edited.count
          \/ original.weekDayOccurenceInMonth # edited.weekDayOccurenceInMonth

\* mutant: the count clause is appended whenever a count is set
TerminationClause_CountToo(rule) ==
  (IF rule.recurrenceEndDate # Null THEN <<<<"until", rule.recurrenceEndDate>>>> ELSE <<>>)
    \o (IF rule.count # Null THEN <<<<"for", rule.count>>>> ELSE <<>>)

\* the termination clause of the rule text: the end date wins over the count
TerminationClause(rule) ==
  IF rule.recurrenceEndDate # Null THEN <<<<"until", rule.recurrenceEndDate>>>>
  ELSE IF rule.count # Null THEN <<<<"for", rule.count>>>>
  ELSE <<>>

\* getRecurrenceRuleText: the rule as a phrase, here the sequence of its clauses
getRecurrenceRuleText(rule) ==
  <<<<"every", rule.interval, rule.frequency>>>>
    \o (IF rule.frequency = WEEKLY THEN <<<<"on", rule.weekDays>>>> ELSE <<>>)
    \o (IF rule.weekDayOccurenceInMonth # Null
        THEN <<<<"onThe", rule.weekDayOccurenceInMonth>>>>
        ELSE <<>>)
    \o TerminationClause(rule)

(* ----------------------------- construction ---------------------------- *)
\* useState of recurrenceRuleState
InitialRuleState(start) ==
  [recurrenceStartDate |-> start,
   recurrenceEndDate |-> Null,
   frequency |-> WEEKLY,
   weekDays |-> <<WeekDayOf(start)>>,
   interval |-> 1,
   count |-> Null,
   weekDayOccurenceInMonth |-> Null]

\* the persisted rules an event card is given
PersistedRules ==
  {[recurrenceStartDate |-> d,
    recurrenceEndDate |-> Null,
    frequency |-> f,
    weekDays |-> <<d % 7>>,
    interval |-> 1,
    count |-> Null,
    weekDayOccurenceInMonth |-> Null] : d \in Days, f \in Frequencies}

AllScopes == <<thisInstance, thisAndFollowingInstances, allInstances>>

\* no toast, no errorHandler call, no refetch
NoResponseEffects == [toast |-> FALSE, errorHandler |-> FALSE, refetchEvents |-> FALSE]

\* the card after construction (useState), before its mount effects
CardInit ==
  /\ tz \in TzOffsets
  /\ propStartDate \in Days
  /\ propEndDate = propStartDate
  /\ propRule \in {NoRule} \cup
                  {<<r>> : r \in {q \in PersistedRules : q.recurrenceStartDate <= propStartDate}}
  /\ propRecurring = (propRule # NoRule)
  /\ eventModalIsOpen \in BOOLEAN
  /\ recurringchecked = propRecurring
  /\ recurringEventUpdateModalIsOpen = FALSE
  /\ eventStartDate = NewDate(propStartDate)
  /\ eventEndDate = NewDate(propEndDate)
  /\ recurrenceRuleState = InitialRuleState(NewDate(propStartDate))
  /\ recurringEventUpdateType = thisInstance
  /\ recurringEventUpdateOptions = AllScopes
  /\ shouldShowRecurringEventUpdateOptions = TRUE
  /\ recurrenceRuleChanged = FALSE
  /\ instanceDatesChanged = FALSE
  /\ mounted = FALSE
  /\ depsModalOpen = eventModalIsOpen
  /\ depsChange = <<eventStartDate, eventEndDate, recurrenceRuleState>>
  /\ depsScope = <<recurrenceRuleChanged, instanceDatesChanged>>
  /\ updateInFlight = 0
  /\ updateEventCall = <<>>
  /\ responseEffects = NoResponseEffects
  /\ editedSinceOpen = FALSE
  /\ eventDeleteModalIsOpen = FALSE
  /\ recurringEventDeleteType = thisInstance
  /\ deleteInFlight = 0
  /\ deleteEventCall = <<>>

\* a step that calls no mutation and handles no response
NoMutation ==
  /\ updateEventCall' = <<>>
  /\ responseEffects' = NoResponseEffects
  /\ UNCHANGED updateInFlight

(* ------------------------------- effects ------------------------------- *)
\* useEffect [eventModalIsOpen]: seed the rule state from the persisted rule
ModalOpenEffect(ruleState) ==
  IF eventModalIsOpen /\ propRule # NoRule
  THEN LET recurrenceRule == propRule[1]
       IN [recurrenceStartDate |-> NewDate(recurrenceRule.recurrenceStartDate),
           recurrenceEndDate |-> IF recurrenceRule.recurrenceEndDate # Null
                                 THEN NewDate(recurrenceRule.recurrenceEndDate)
                                 ELSE Null,
           frequency |-> recurrenceRule.frequency,
           weekDays |-> recurrenceRule.weekDays,
           interval |-> recurrenceRule.interval,
           count |-> recurrenceRule.count,
           weekDayOccurenceInMonth |-> recurrenceRule.weekDayOccurenceInMonth]
  ELSE ruleState

\* the rule text the preview modal shows
recurrenceRuleText == getRecurrenceRuleText(RuleOfState(recurrenceRuleState))

\* useEffect [eventStartDate, eventEndDate, recurrenceRuleState]
InstanceDatesChangedNow ==
  haveInstanceDatesChanged(propStartDate, propEndDate,
                           FormatDate(eventStartDate), FormatDate(eventEndDate))

RecurrenceRuleChangedNow ==
  hasRecurrenceRuleChanged(propRule, <<RuleOfState(recurrenceRuleState)>>)

\* useEffect [recurrenceRuleChanged, instanceDatesChanged]: its four if blocks, in
\* order, over s = [type, options, show]; the set calls of one effect are batched,
\* so the last write of each state wins
\* mutant: the dates block without its setRecurringEventUpdateType(thisInstance)
ScopeIfDatesChanged_KeepsType(s, datesChanged) ==
  IF datesChanged
  THEN [type |-> s.type,
        options |-> <<thisInstance, thisAndFollowingInstances>>,
        show |-> TRUE]
  ELSE s

ScopeIfDatesChanged(s, datesChanged) ==
  IF datesChanged
  THEN [type |-> thisInstance,
        options |-> <<thisInstance, thisAndFollowingInstances>>,
        show |-> TRUE]
  ELSE s

\* mutant: the rule block without its setRecurringEventUpdateType(thisAndFollowingInstances)
ScopeIfRuleChanged_KeepsType(s, ruleChanged) ==
  IF ruleChanged
  THEN [type |-> s.type,
        options |-> <<thisAndFollowingInstances, allInstances>>,
        show |-> TRUE]
  ELSE s

\* mutant: the rule block without its setRecurringEventUpdateOptions
ScopeIfRuleChanged_KeepsOptions(s, ruleChanged) ==
  IF ruleChanged
  THEN [type |-> thisAndFollowingInstances, options |-> s.options, show |-> TRUE]
  ELSE s

ScopeIfRuleChanged(s, ruleChanged) ==
  IF ruleChanged
  THEN [type |-> thisAndFollowingInstances,
        options |-> <<thisAndFollowingInstances, allInstances>>,
        show |-> TRUE]
  ELSE s

ScopeIfBothChanged(s, ruleChanged, datesChanged) ==
  IF ruleChanged /\ datesChanged
  THEN [s EXCEPT !.type = thisAndFollowingInstances, !.show = FALSE]
  ELSE s

\* mutant: the last block without its setRecurringEventUpdateOptions
ScopeIfNoneChanged_KeepsOptions(s, ruleChanged, datesChanged) ==
  IF ~ruleChanged /\ ~datesChanged
  THEN [type |-> thisInstance, options |-> s.options, show |-> TRUE]
  ELSE s

ScopeIfNoneChanged(s, ruleChanged, datesChanged) ==
  IF ~ruleChanged /\ ~datesChanged
  THEN [type |-> thisInstance, options |-> AllScopes, show |-> TRUE]
  ELSE s

ScopeOptionsEffect(s, ruleChanged, datesChanged) ==
  ScopeIfNoneChanged(
    ScopeIfBothChanged(
      ScopeIfRuleChanged(
        ScopeIfDatesChanged(s, datesChanged),
        ruleChanged),
      ruleChanged, datesChanged),
    ruleChanged, datesChanged)

CurrentScope ==
  [type |-> recurringEventUpdateType,
   options |-> recurringEventUpdateOptions,
   show |-> shouldShowRecurringEventUpdateOptions]

RunModalOpenEffect == ~mounted \/ depsModalOpen # eventModalIsOpen
\* mutant: the dependency array of the change effect without eventEndDate
RunChangeEffect_NoEndDate ==
  ~mounted \/ <<depsChange[1], depsChange[3]>> # <<eventStartDate, recurrenceRuleState>>

RunChangeEffect ==
  ~mounted \/ depsChange # <<eventStartDate, eventEndDate, recurrenceRuleState>>
RunScopeEffect ==
  ~mounted \/ depsScope # <<recurrenceRuleChanged, instanceDatesChanged>>

\* no effect is pending: the state in which React hands the next event to a handler
Settled == ~RunModalOpenEffect /\ ~RunChangeEffect /\ ~RunScopeEffect

\* the effects of one commit: each effect whose dependencies changed runs on the
\* state of that render, then the state they set is rendered
FlushEffects ==
  /\ ~Settled
  /\ recurrenceRuleState' =
       IF RunModalOpenEffect THEN ModalOpenEffect(recurrenceRuleState)
       ELSE recurrenceRuleState
  /\ instanceDatesChanged' =
       IF RunChangeEffect THEN InstanceDatesChangedNow ELSE instanceDatesChanged
  /\ recurrenceRuleChanged' =
       IF RunChangeEffect THEN RecurrenceRuleChangedNow ELSE recurrenceRuleChanged
  /\ LET s == IF RunScopeEffect
              THEN ScopeOptionsEffect(CurrentScope, recurrenceRuleChanged,
                                      instanceDatesChanged)
              ELSE CurrentScope
     IN /\ recurringEventUpdateType' = s.type
        /\ recurringEventUpdateOptions' = s.options
        /\ shouldShowRecurringEventUpdateOptions' = s.show
  /\ mounted' = TRUE
  /\ depsModalOpen' = eventModalIsOpen
  /\ depsChange' = <<eventStartDate, eventEndDate, recurrenceRuleState>>
  /\ depsScope' = <<recurrenceRuleChanged, instanceDatesChanged>>
  /\ UNCHANGED <<otherVars, propVars, eventModalIsOpen, recurringEventUpdateModalIsOpen,
                 recurringchecked, eventStartDate, eventEndDate, editedSinceOpen>>
  /\ NoMutation

(* ------------------------------ handlers ------------------------------- *)
\* the preview modal is shown and no other modal covers it
PreviewModalActive ==
  eventModalIsOpen /\ ~recurringEventUpdateModalIsOpen /\ ~eventDeleteModalIsOpen

\* the parent card opens the view modal
ShowViewModal ==
  /\ Settled
  /\ ~eventModalIsOpen
  /\ eventModalIsOpen' = TRUE
  /\ editedSinceOpen' = FALSE
  /\ UNCHANGED <<otherVars, propVars, recurringEventUpdateModalIsOpen, formVars, flagVars,
                 scopeVars, depVars>>
  /\ NoMutation

\* hideViewModal, from the preview modal's close button
HideViewModal ==
  /\ Settled
  /\ PreviewModalActive
  /\ eventModalIsOpen' = FALSE
  /\ UNCHANGED <<otherVars, propVars, recurringEventUpdateModalIsOpen, formVars, flagVars,
                 scopeVars, depVars, editedSinceOpen>>
  /\ NoMutation

SetEventStartDate(t) ==
  /\ Settled
  /\ PreviewModalActive
  /\ eventStartDate' = t
  /\ editedSinceOpen' = TRUE
  /\ UNCHANGED <<otherVars, propVars, eventModalIsOpen, recurringEventUpdateModalIsOpen,
                 recurringchecked, eventEndDate, recurrenceRuleState, flagVars,
                 scopeVars, depVars>>
  /\ NoMutation

SetEventEndDate(t) ==
  /\ Settled
  /\ PreviewModalActive
  /\ eventEndDate' = t
  /\ editedSinceOpen' = TRUE
  /\ UNCHANGED <<otherVars, propVars, eventModalIsOpen, recurringEventUpdateModalIsOpen,
                 recurringchecked, eventStartDate, recurrenceRuleState, flagVars,
                 scopeVars, depVars>>
  /\ NoMutation

\* the recurrence editor sets a rule state with another frequency and interval
SetRecurrenceRuleState(f, n) ==
  /\ Settled
  /\ PreviewModalActive
  /\ recurrenceRuleState' = [recurrenceRuleState EXCEPT !.frequency = f, !.interval = n]
  /\ editedSinceOpen' = TRUE
  /\ UNCHANGED <<otherVars, propVars, eventModalIsOpen, recurringEventUpdateModalIsOpen,
                 recurringchecked, eventStartDate, eventEndDate, flagVars,
                 scopeVars, depVars>>
  /\ NoMutation

\* mutant: toggling the checkbox also resets the rule to that of the persisted event
SetRecurringChecked_ResetsRule ==
  /\ Settled
  /\ PreviewModalActive
  /\ recurringchecked' = ~recurringchecked
  /\ recurrenceRuleState' = ModalOpenEffect(recurrenceRuleState)
  /\ editedSinceOpen' = TRUE
  /\ UNCHANGED <<otherVars, propVars, eventModalIsOpen, recurringEventUpdateModalIsOpen,
                 eventStartDate, eventEndDate, flagVars, scopeVars, depVars>>
  /\ NoMutation

SetRecurringChecked ==
  /\ Settled
  /\ PreviewModalActive
  /\ recurringchecked' = ~recurringchecked
  /\ editedSinceOpen' = TRUE
  /\ UNCHANGED <<otherVars, propVars, eventModalIsOpen, recurringEventUpdateModalIsOpen,
                 eventStartDate, eventEndDate, recurrenceRuleState, flagVars,
                 scopeVars, depVars>>
  /\ NoMutation

\* mutant: recurrenceStartDate moves to the instance only when the dates changed
UpdateVariables_DatesOnly ==
  [recurring |-> recurringchecked,
   recurringEventUpdateType |->
     IF recurringchecked THEN recurringEventUpdateType ELSE Undefined,
   startDate |-> FormatDate(eventStartDate),
   endDate |-> FormatDate(eventEndDate),
   recurrenceStartDate |->
     IF recurringchecked
     THEN IF /\ recurringEventUpdateType = thisAndFollowingInstances
             /\ instanceDatesChanged
          THEN FormatDate(eventStartDate)
          ELSE FormatDate(recurrenceRuleState.recurrenceStartDate)
     ELSE Null]

\* mutant: the selected type is sent whether or not the recurring box is checked
UpdateVariables_AlwaysType ==
  [recurring |-> recurringchecked,
   recurringEventUpdateType |-> recurringEventUpdateType,
   startDate |-> FormatDate(eventStartDate),
   endDate |-> FormatDate(eventEndDate),
   recurrenceStartDate |->
     IF recurringchecked
     THEN IF /\ recurringEventUpdateType = thisAndFollowingInstances
             /\ (instanceDatesChanged \/ recurrenceRuleChanged)
          THEN FormatDate(eventStartDate)
          ELSE FormatDate(recurrenceRuleState.recurrenceStartDate)
     ELSE Null]

\* the variables updateEventHandler hands to the update mutation
UpdateVariables ==
  [recurring |-> recurringchecked,
   recurringEventUpdateType |->
     IF recurringchecked THEN recurringEventUpdateType ELSE Undefined,
   startDate |-> FormatDate(eventStartDate),
   endDate |-> FormatDate(eventEndDate),
   recurrenceStartDate |->
     IF recurringchecked
     THEN IF /\ recurringEventUpdateType = thisAndFollowingInstances
             /\ (instanceDatesChanged \/ recurrenceRuleChanged)
          THEN FormatDate(eventStartDate)
          ELSE FormatDate(recurrenceRuleState.recurrenceStartDate)
     ELSE Null]

\* updateEventHandler up to its await: the mutation is sent
SendUpdate ==
  /\ updateInFlight < MaxInflight
  /\ updateInFlight' = updateInFlight + 1
  /\ updateEventCall' = <<UpdateVariables>>
  /\ responseEffects' = NoResponseEffects

\* mutant: a recurring event always goes through the confirmation modal
handleEventUpdate_AlwaysConfirm ==
  /\ Settled
  /\ PreviewModalActive
  /\ IF ~propRecurring
     THEN SendUpdate /\ UNCHANGED recurringEventUpdateModalIsOpen
     ELSE recurringEventUpdateModalIsOpen' = TRUE /\ NoMutation
  /\ UNCHANGED <<otherVars, propVars, eventModalIsOpen, formVars, flagVars, scopeVars,
                 depVars, editedSinceOpen>>

\* handleEventUpdate, the preview modal's submit
handleEventUpdate ==
  /\ Settled
  /\ PreviewModalActive
  /\ IF ~propRecurring
     THEN SendUpdate /\ UNCHANGED recurringEventUpdateModalIsOpen
     ELSE IF shouldShowRecurringEventUpdateOptions
          THEN recurringEventUpdateModalIsOpen' = TRUE /\ NoMutation
          ELSE SendUpdate /\ UNCHANGED recurringEventUpdateModalIsOpen
  /\ UNCHANGED <<otherVars, propVars, eventModalIsOpen, formVars, flagVars, scopeVars,
                 depVars, editedSinceOpen>>

\* toggleRecurringEventUpdateModal, the update modal's close button
toggleRecurringEventUpdateModal ==
  /\ Settled
  /\ recurringEventUpdateModalIsOpen
  /\ recurringEventUpdateModalIsOpen' = ~recurringEventUpdateModalIsOpen
  /\ UNCHANGED <<otherVars, propVars, eventModalIsOpen, formVars, flagVars, scopeVars,
                 depVars, editedSinceOpen>>
  /\ NoMutation

\* the update modal's radio buttons, one per offered option
SetRecurringEventUpdateType(option) ==
  /\ Settled
  /\ recurringEventUpdateModalIsOpen
  /\ option \in SeqToSet(recurringEventUpdateOptions)
  /\ recurringEventUpdateType' = option
  /\ editedSinceOpen' = TRUE
  /\ UNCHANGED <<otherVars, propVars, eventModalIsOpen, recurringEventUpdateModalIsOpen,
                 formVars, flagVars, recurringEventUpdateOptions,
                 shouldShowRecurringEventUpdateOptions, depVars>>
  /\ NoMutation

\* updateEventHandler, the update modal's confirm button
updateEventHandler ==
  /\ Settled
  /\ recurringEventUpdateModalIsOpen
  /\ SendUpdate
  /\ UNCHANGED <<otherVars, propVars, eventModalIsOpen, recurringEventUpdateModalIsOpen,
                 formVars, flagVars, scopeVars, depVars, editedSinceOpen>>

\* how the awaited updateEvent call ends: it returns data, it returns without
\* data, or it throws
data == "data"
noData == "noData"
error == "error"
MutationOutcomes == {data, noData, error}

\* mutant: the modals are closed in a finally block, whatever the outcome
UpdateResponse_ClosesAlways(outcome) ==
  /\ Settled
  /\ updateInFlight > 0
  /\ updateInFlight' = updateInFlight - 1
  /\ updateEventCall' = <<>>
  /\ responseEffects' = [toast |-> outcome = data,
                         errorHandler |-> outcome = error,
                         refetchEvents |-> outcome = data]
  /\ recurringEventUpdateModalIsOpen' = FALSE
  /\ eventModalIsOpen' = FALSE
  /\ UNCHANGED <<otherVars, propVars, formVars, flagVars, scopeVars, depVars,
                 editedSinceOpen>>

\* updateEventHandler after its await: data brings the success toast, closes both
\* modals and refetches the events; a thrown error goes to errorHandler; a result
\* without data does nothing
UpdateResponse(outcome) ==
  /\ Settled
  /\ updateInFlight > 0
  /\ updateInFlight' = updateInFlight - 1
  /\ updateEventCall' = <<>>
  /\ responseEffects' = [toast |-> outcome = data,
                         errorHandler |-> outcome = error,
                         refetchEvents |-> outcome = data]
  /\ recurringEventUpdateModalIsOpen' =
       IF outcome = data THEN FALSE ELSE recurringEventUpdateModalIsOpen
  /\ eventModalIsOpen' = IF outcome = data THEN FALSE ELSE eventModalIsOpen
  /\ UNCHANGED <<otherVars, propVars, formVars, flagVars, scopeVars, depVars,
                 editedSinceOpen>>

Next ==
  \/ FlushEffects
  \/ ShowViewModal
  \/ HideViewModal
  \/ \E t \in Instants : SetEventStartDate(t)
  \/ \E t \in Instants : SetEventEndDate(t)
  \/ \E f \in Frequencies, n \in 1..MaxInterval : SetRecurrenceRuleState(f, n)
  \/ SetRecurringChecked
  \/ handleEventUpdate
  \/ toggleRecurringEventUpdateModal
  \/ \E option \in RecurringEventMutationType : SetRecurringEventUpdateType(option)
  \/ updateEventHandler
  \/ \E outcome \in MutationOutcomes : UpdateResponse(outcome)

(* ---------------------------- delete modal ----------------------------- *)
\* toggleDeleteModal: the preview modal's delete button opens the delete modal, the
\* delete modal's close button closes it
toggleDeleteModal ==
  /\ Settled
  /\ PreviewModalActive \/ eventDeleteModalIsOpen
  /\ eventDeleteModalIsOpen' = ~eventDeleteModalIsOpen
  /\ NoMutation
  /\ deleteEventCall' = <<>>
  /\ UNCHANGED <<recurringEventDeleteType, deleteInFlight>>
  /\ UNCHANGED <<utilVars, routeVars, pageVars, propVars, eventModalIsOpen,
                 recurringEventUpdateModalIsOpen, formVars, flagVars, scopeVars,
                 depVars, editedSinceOpen>>

\* the delete modal's radio buttons
SetRecurringEventDeleteType(option) ==
  /\ Settled
  /\ eventDeleteModalIsOpen
  /\ recurringEventDeleteType' = option
  /\ NoMutation
  /\ deleteEventCall' = <<>>
  /\ UNCHANGED <<eventDeleteModalIsOpen, deleteInFlight>>
  /\ UNCHANGED <<utilVars, routeVars, pageVars, propVars, eventModalIsOpen,
                 recurringEventUpdateModalIsOpen, formVars, flagVars, scopeVars,
                 depVars, editedSinceOpen>>

\* mutant: the delete type is sent when the recurring box is checked
DeleteVariables_ByCheckbox ==
  [recurringEventDeleteType |->
     IF recurringchecked THEN recurringEventDeleteType ELSE Undefined]

\* the variables deleteEventHandler hands to the delete mutation
DeleteVariables ==
  [recurringEventDeleteType |->
     IF propRecurring THEN recurringEventDeleteType ELSE Undefined]

\* deleteEventHandler up to its await, from the delete modal's confirm button
deleteEventHandler ==
  /\ Settled
  /\ eventDeleteModalIsOpen
  /\ deleteInFlight < MaxInflight
  /\ deleteInFlight' = deleteInFlight + 1
  /\ deleteEventCall' = <<DeleteVariables>>
  /\ NoMutation
  /\ UNCHANGED <<eventDeleteModalIsOpen, recurringEventDeleteType>>
  /\ UNCHANGED <<utilVars, routeVars, pageVars, propVars, eventModalIsOpen,
                 recurringEventUpdateModalIsOpen, formVars, flagVars, scopeVars,
                 depVars, editedSinceOpen>>

\* deleteEventHandler after its await: data brings the success toast, closes the
\* delete and the view modal and refetches the events; a thrown error goes to
\* errorHandler
DeleteResponse(outcome) ==
  /\ Settled
  /\ deleteInFlight > 0
  /\ deleteInFlight' = deleteInFlight - 1
  /\ deleteEventCall' = <<>>
  /\ updateEventCall' = <<>>
  /\ responseEffects' = [toast |-> outcome = data,
                         errorHandler |-> outcome = error,
                         refetchEvents |-> outcome = data]
  /\ eventDeleteModalIsOpen' = IF outcome = data THEN FALSE ELSE eventDeleteModalIsOpen
  /\ eventModalIsOpen' = IF outcome = data THEN FALSE ELSE eventModalIsOpen
  /\ UNCHANGED <<recurringEventDeleteType, updateInFlight>>
  /\ UNCHANGED <<utilVars, routeVars, pageVars, propVars,
                 recurringEventUpdateModalIsOpen, formVars, flagVars, scopeVars,
                 depVars, editedSinceOpen>>

\* the card with its edit flow and its delete modal
NextDelete ==
  \/ Next
  \/ toggleDeleteModal
  \/ \E option \in RecurringEventMutationType : SetRecurringEventDeleteType(option)
  \/ deleteEventHandler
  \/ \E outcome \in MutationOutcomes : DeleteResponse(outcome)

(* ------------------- recurrenceUtils, function by function -------------- *)
\* week day lists of a rule: one day, and two days in either order
WeekDayLists == {<<1>>, <<1, 2>>, <<2, 1>>}

\* the rules of the data model: interval >= 1, week days not empty,
\* recurrenceStartDate <= recurrenceEndDate
RecurrenceRules ==
  {r \in [recurrenceStartDate : Days,
          recurrenceEndDate : {Null} \cup Days,
          frequency : Frequencies,
          weekDays : WeekDayLists,
          interval : 1..MaxInterval,
          count : {Null} \cup 1..MaxCount,
          weekDayOccurenceInMonth : {Null, 1}] :
     r.recurrenceEndDate # Null => r.recurrenceStartDate <= r.recurrenceEndDate}

OptionalRules == {NoRule} \cup {<<r>> : r \in RecurrenceRules}

\* no call is made
UtilsIdle == utilCall = <<>> /\ utilResult = <<>>

\* a call of one of the three functions is about to be made, with any arguments:
\* utilResult is <<>> until the function returned
UtilsInit ==
  /\ utilResult = <<>>
  /\ \/ \E originalStart \in Days, originalEnd \in Days, newStart \in Days, newEnd \in Days :
          utilCall = <<"haveInstanceDatesChanged", originalStart, originalEnd,
                       newStart, newEnd>>
     \/ \E originalRule \in OptionalRules, editedRule \in OptionalRules :
          utilCall = <<"hasRecurrenceRuleChanged", originalRule, editedRule>>
     \/ \E rule \in RecurrenceRules : utilCall = <<"getRecurrenceRuleText", rule>>

CallHaveInstanceDatesChanged ==
  /\ Len(utilResult) = 0
  /\ Len(utilCall) > 0
  /\ utilCall[1] = "haveInstanceDatesChanged"
  /\ utilResult' =
       <<haveInstanceDatesChanged(utilCall[2], utilCall[3], utilCall[4], utilCall[5])>>
  /\ UNCHANGED <<utilCall, cardVars, deleteVars, routeVars, pageVars>>

CallHasRecurrenceRuleChanged ==
  /\ Len(utilResult) = 0
  /\ Len(utilCall) > 0
  /\ utilCall[1] = "hasRecurrenceRuleChanged"
  /\ utilResult' = <<hasRecurrenceRuleChanged(utilCall[2], utilCall[3])>>
  /\ UNCHANGED <<utilCall, cardVars, deleteVars, routeVars, pageVars>>

CallGetRecurrenceRuleText ==
  /\ Len(utilResult) = 0
  /\ Len(utilCall) > 0
  /\ utilCall[1] = "getRecurrenceRuleText"
  /\ utilResult' = <<getRecurrenceRuleText(utilCall[2])>>
  /\ UNCHANGED <<utilCall, cardVars, deleteVars, routeVars, pageVars>>

NextUtils ==
  \/ CallHaveInstanceDatesChanged
  \/ CallHasRecurrenceRuleChanged
  \/ CallGetRecurrenceRuleText

(* ---------------------------- routesReducer ---------------------------- *)
UPDATE_TARGETS == "UPDATE_TARGETS"
\* the action types dispatched to the reducer
ActionTypes == {UPDATE_TARGETS, "", "UNKNOWN"}
\* the organization ids of a payload; Null is an undefined payload
OrgIds == {Null} \cup 1..MaxOrg

components ==
  << [name |-> "My Organizations", comp_id |-> "orglist", component |-> "OrgList"],
     [name |-> "Dashboard", comp_id |-> "orgdash", component |-> "OrganizationDashboard"],
     [name |-> "People", comp_id |-> "orgpeople", component |-> "OrganizationPeople"],
     [name |-> "Tags", comp_id |-> "orgtags", component |-> "OrganizationTags"],
     [name |-> "Events", comp_id |-> "orgevents", component |-> "OrganizationEvents"],
     [name |-> "Venues", comp_id |-> "orgvenues", component |-> "OrganizationVenues"],
     [name |-> "Action Items", comp_id |-> "orgactionitems",
      component |-> "OrganizationActionItems"],
     [name |-> "Posts", comp_id |-> "orgpost", component |-> "OrgPost"],
     [name |-> "Block/Unblock", comp_id |-> "blockuser", component |-> "BlockUser"],
     [name |-> "Advertisement", comp_id |-> "orgads", component |-> "Advertisements"],
     [name |-> "Funds", comp_id |-> "orgfunds", component |-> "OrganizationFunds"],
     [name |-> "Membership Requests", comp_id |-> "requests", component |-> "Requests"],
     [name |-> "Settings", comp_id |-> "orgsetting", component |-> "OrgSettings"],
     [name |-> "", comp_id |-> "member", component |-> "MemberDetail"] >>

\* mutant: the organization id is appended to every url
RouteUrl_AlwaysId(comp, id) == <<comp.comp_id, id>>

\* a url is the sequence of its path segments: '/orglist', '/<comp_id>/<id>'
RouteUrl(comp, id) ==
  IF comp.comp_id = "orglist" THEN <<comp.comp_id>> ELSE <<comp.comp_id, id>>

HasName(comp) == comp.name # ""

\* the targets: one per named component, in the order of the components
generateRoutes(comps, id) ==
  LET named == SelectSeq(comps, HasName)
  IN [i \in 1..Len(named) |-> [name |-> named[i].name, url |-> RouteUrl(named[i], id)]]

INITIAL_STATE == [targets |-> generateRoutes(components, Null), components |-> components]

reducer(state, action) ==
  IF action.type = UPDATE_TARGETS
  THEN [INITIAL_STATE EXCEPT !.targets = generateRoutes(components, action.payload)]
  ELSE state

\* no store
RoutesIdle == routes = <<>> /\ routesAction = <<>>

\* the store after creation: reducer(undefined, ...) is the initial state
RoutesInit == routes = INITIAL_STATE /\ routesAction = <<>>

Dispatch(type, payload) ==
  LET action == [type |-> type, payload |-> payload]
  IN /\ routes' = reducer(routes, action)
     /\ routesAction' = <<action>>
     /\ UNCHANGED <<cardVars, deleteVars, utilVars, pageVars>>

NextRoutes == \E type \in ActionTypes, payload \in OrgIds : Dispatch(type, payload)

(* ------------------------------ calendar ------------------------------- *)
SUPERADMIN == "SUPERADMIN"
ADMIN == "ADMIN"
USER == "USER"
Role == {USER, ADMIN, SUPERADMIN}

Users == {"u1", "u2"}
EventIds == 1..MaxEvents
\* the events a calendar can be handed: _id, isPublic and the ids of the attendees
Events == [_id : EventIds, isPublic : BOOLEAN, attendees : SUBSET Users]

\* mutant: an admin is given every event
filterData_AdminSeesAll(eventDataArg, orgDataArg, userRoleArg, userIdArg) ==
  LET RECURSIVE forEach(_)
      forEach(i) ==
        IF i > Len(eventDataArg) THEN <<>>
        ELSE LET event == eventDataArg[i]
                 userAttending == userIdArg \in event.attendees
                 pushed ==
                   IF userRoleArg = ADMIN
                   THEN <<event>>
                   ELSE (IF event.isPublic THEN <<event>> ELSE <<>>)
                        \o (IF userAttending THEN <<event>> ELSE <<>>)
             IN pushed \o forEach(i + 1)
  IN IF userRoleArg = SUPERADMIN THEN eventDataArg ELSE forEach(1)

\* filterData: the events the user may see, in the order they are pushed
filterData(eventDataArg, orgDataArg, userRoleArg, userIdArg) ==
  LET RECURSIVE forEach(_)
      forEach(i) ==
        IF i > Len(eventDataArg) THEN <<>>
        ELSE LET event == eventDataArg[i]
                 filteredOrg == /\ Len(orgDataArg) > 0
                                /\ userIdArg \in orgDataArg[1].admins
                 userAttending == userIdArg \in event.attendees
                 pushed ==
                   IF userRoleArg = ADMIN
                   THEN (IF event.isPublic THEN <<event>> ELSE <<>>)
                        \o (IF ~event.isPublic /\ filteredOrg THEN <<event>> ELSE <<>>)
                   ELSE (IF event.isPublic THEN <<event>> ELSE <<>>)
                        \o (IF userAttending THEN <<event>> ELSE <<>>)
             IN pushed \o forEach(i + 1)
  IN IF userRoleArg = SUPERADMIN THEN eventDataArg ELSE forEach(1)

\* no calendar is mounted
FilterIdle ==
  /\ eventData = <<>>
  /\ orgData = <<>>
  /\ userRole = Undefined
  /\ userId = Undefined
  /\ events = <<>>

\* a calendar after construction: its props, events still null
FilterInit ==
  /\ \E n \in 0..MaxEvents :
       eventData \in {list \in [1..n -> Events] :
                        \A i, j \in 1..n : list[i]._id = list[j]._id => i = j}
  /\ orgData \in {<<>>} \cup {<<[admins |-> a]>> : a \in SUBSET Users}
  /\ userRole \in Role \cup {Undefined}
  /\ userId \in Users \cup {Undefined}
  /\ events = <<>>

\* useEffect [eventData, orgData, userRole, userId]
FilterEffect ==
  /\ events = <<>>
  /\ events' = <<filterData(eventData, orgData, userRole, userId)>>
  /\ UNCHANGED <<eventData, orgData, userRole, userId, dateVars>>
  /\ UNCHANGED <<cardVars, deleteVars, utilVars, routeVars, postVars>>

NextFilter == FilterEffect

\* the years the calendar is navigated in
Years == 2023..(2023 + MaxYears - 1)

IsLeapYear(year) == (year % 4 = 0 /\ year % 100 # 0) \/ year % 400 = 0

\* the days of month 0..11 of a year
DaysInMonth(year, month) ==
  IF month = 1 THEN (IF IsLeapYear(year) THEN 29 ELSE 28)
  ELSE IF month \in {3, 5, 8, 10} THEN 30 ELSE 31

\* new Date(year, monthIndex, 0).getDate(): the last day of the month before
\* monthIndex, for any monthIndex
GetDateOfDayZero(year, monthIndex) ==
  DaysInMonth(year + ((monthIndex - 1) \div 12), (monthIndex - 1) % 12)

DateIdle ==
  /\ today = [year |-> 2023, month |-> 0, date |-> 1]
  /\ currentYear = 2023
  /\ currentMonth = 0
  /\ currentDate = 1

\* useState(today.getDate()), useState(today.getMonth()),
\* useState(today.getFullYear()), today the first or the last day of a month
DateInit ==
  /\ \E y \in Years, mo \in 0..11 :
       \E d \in {1, DaysInMonth(y, mo)} :
         today = [year |-> y, month |-> mo, date |-> d]
  /\ currentYear = today.year
  /\ currentMonth = today.month
  /\ currentDate = today.date

DateFrame ==
  /\ UNCHANGED <<today, filterVars>>
  /\ UNCHANGED <<cardVars, deleteVars, utilVars, routeVars, postVars>>

handlePrevMonth ==
  /\ IF currentMonth = 0
     THEN /\ currentYear - 1 \in Years
          /\ currentMonth' = 11
          /\ currentYear' = currentYear - 1
     ELSE /\ currentMonth' = currentMonth - 1
          /\ UNCHANGED currentYear
  /\ UNCHANGED currentDate
  /\ DateFrame

handleNextMonth ==
  /\ IF currentMonth = 11
     THEN /\ currentYear + 1 \in Years
          /\ currentMonth' = 0
          /\ currentYear' = currentYear + 1
     ELSE /\ currentMonth < MaxMonth
          /\ currentMonth' = currentMonth + 1
          /\ UNCHANGED currentYear
  /\ UNCHANGED currentDate
  /\ DateFrame

handlePrevDate ==
  /\ IF currentDate > 1
     THEN /\ currentDate' = currentDate - 1
          /\ UNCHANGED <<currentMonth, currentYear>>
     ELSE IF currentMonth > 0
          THEN LET lastDayOfPrevMonth == GetDateOfDayZero(currentYear, currentMonth)
               IN /\ currentDate' = lastDayOfPrevMonth
                  /\ currentMonth' = currentMonth - 1
                  /\ UNCHANGED currentYear
          ELSE /\ currentYear - 1 \in Years
               /\ currentDate' = 31
               /\ currentMonth' = 11
               /\ currentYear' = currentYear - 1
  /\ DateFrame

handleNextDate ==
  /\ LET lastDayOfCurrentMonth == GetDateOfDayZero(currentYear, currentMonth - 1)
     IN IF currentDate < lastDayOfCurrentMonth
        THEN /\ currentDate' = currentDate + 1
             /\ UNCHANGED <<currentMonth, currentYear>>
        ELSE IF currentMonth < 12
             THEN /\ currentDate' = 1
                  /\ currentMonth' = currentMonth + 1
                  /\ UNCHANGED currentYear
             ELSE /\ currentYear + 1 \in Years
                  /\ currentDate' = 1
                  /\ currentMonth' = 1
                  /\ currentYear' = currentYear + 1
  /\ DateFrame

handleTodayButton ==
  /\ currentYear' = today.year
  /\ currentMonth' = today.month
  /\ currentDate' = today.date
  /\ DateFrame

NextCalendar ==
  \/ handlePrevMonth
  \/ handleNextMonth
  \/ handlePrevDate
  \/ handleNextDate
  \/ handleTodayButton

CalendarIdle == FilterIdle /\ DateIdle

(* ------------------------------ PostCard ------------------------------- *)
\* getItem('userId')
PostUserId == "u1"

LikeIdle ==
  /\ propLikeCount = 0
  /\ propLiked = FALSE
  /\ likes = 0
  /\ isLikedByUser = FALSE
  /\ likeInFlight = 0
  /\ unLikeInFlight = 0
  /\ toggleResponse = <<>>

\* useState(props.likeCount), useState(likedByUser)
LikeInit ==
  /\ propLiked \in BOOLEAN
  /\ propLikeCount \in (IF propLiked THEN 1 ELSE 0)..MaxLikes
  /\ likes = propLikeCount
  /\ isLikedByUser = propLiked
  /\ likeInFlight = 0
  /\ unLikeInFlight = 0
  /\ toggleResponse = <<>>

LikeFrame ==
  /\ UNCHANGED <<propLikeCount, propLiked, commentVars>>
  /\ UNCHANGED <<cardVars, deleteVars, utilVars, routeVars, calendarVars>>

\* handleToggleLike up to its await: unLikePost when the post shows as liked,
\* likePost otherwise
handleToggleLike ==
  /\ likeInFlight + unLikeInFlight < MaxInflight
  /\ likes - propLikeCount \in (0 - MaxDrift)..MaxDrift
  /\ IF isLikedByUser
     THEN unLikeInFlight' = unLikeInFlight + 1 /\ UNCHANGED likeInFlight
     ELSE likeInFlight' = likeInFlight + 1 /\ UNCHANGED unLikeInFlight
  /\ toggleResponse' = <<>>
  /\ UNCHANGED <<likes, isLikedByUser>>
  /\ LikeFrame

\* handleToggleLike after await unLikePost
UnLikeResponse(outcome) ==
  /\ unLikeInFlight > 0
  /\ unLikeInFlight' = unLikeInFlight - 1
  /\ toggleResponse' = <<[mutation |-> "unLikePost", outcome |-> outcome]>>
  /\ IF outcome = data
     THEN likes' = likes - 1 /\ isLikedByUser' = FALSE
     ELSE UNCHANGED <<likes, isLikedByUser>>
  /\ UNCHANGED likeInFlight
  /\ LikeFrame

\* handleToggleLike after await likePost
LikeResponse(outcome) ==
  /\ likeInFlight > 0
  /\ likeInFlight' = likeInFlight - 1
  /\ toggleResponse' = <<[mutation |-> "likePost", outcome |-> outcome]>>
  /\ IF outcome = data
     THEN likes' = likes + 1 /\ isLikedByUser' = TRUE
     ELSE UNCHANGED <<likes, isLikedByUser>>
  /\ UNCHANGED unLikeInFlight
  /\ LikeFrame

NextLike ==
  \/ handleToggleLike
  \/ \E outcome \in MutationOutcomes : UnLikeResponse(outcome)
  \/ \E outcome \in MutationOutcomes : LikeResponse(outcome)

\* what the comment input can hold: nothing, blanks, a text
CommentInputs == {"", " ", "text"}

\* commentInput.trim()
Trim(input) == IF input = " " THEN "" ELSE input

\* the comments a card is built with: ids 1..n, liked by any users
CommentLists(n) ==
  {list \in [1..n -> [id : 1..n, likeCount : 0..Cardinality(Users),
                      likedBy : SUBSET Users]] :
     \A i \in 1..n : /\ list[i].id = i
                     /\ list[i].likeCount = Cardinality(list[i].likedBy)}

CommentIdle ==
  /\ propComments = <<>>
  /\ propCommentCount = 0
  /\ comments = <<>>
  /\ numComments = 0
  /\ commentInput = ""
  /\ createInFlight = <<>>
  /\ nextCommentId = 1
  /\ likedLocally = {}
  /\ dislikedLocally = {}

\* useState(props.comments), useState(props.commentCount), useState('')
CommentInit ==
  /\ \E n \in 0..MaxComments : propComments \in CommentLists(n)
  /\ propCommentCount = Len(propComments)
  /\ comments = propComments
  /\ numComments = propCommentCount
  /\ commentInput = ""
  /\ createInFlight = <<>>
  /\ nextCommentId = Len(propComments) + 1
  /\ likedLocally = {}
  /\ dislikedLocally = {}

CommentFrame ==
  /\ UNCHANGED <<propComments, propCommentCount, likeVars>>
  /\ UNCHANGED <<cardVars, deleteVars, utilVars, routeVars, calendarVars>>

handleCommentInput(comment) ==
  /\ commentInput' = comment
  /\ UNCHANGED <<comments, numComments, createInFlight, nextCommentId,
                 likedLocally, dislikedLocally>>
  /\ CommentFrame

\* the ids of the comment cards shown
ShownCommentIds ==
  IF numComments # 0 THEN {comments[i].id : i \in 1..Len(comments)} ELSE {}

\* the change handleDislikeComment makes to one comment
DislikedComment(comment, commentId) ==
  IF comment.id = commentId /\ PostUserId \in comment.likedBy
  THEN [comment EXCEPT !.likedBy = comment.likedBy \ {PostUserId},
                       !.likeCount = comment.likeCount - 1]
  ELSE comment

\* the change handleLikeComment makes to one comment
LikedComment(comment, commentId) ==
  IF comment.id = commentId /\ PostUserId \notin comment.likedBy
  THEN [comment EXCEPT !.likedBy = comment.likedBy \cup {PostUserId},
                       !.likeCount = comment.likeCount + 1]
  ELSE comment

handleDislikeComment(commentId) ==
  /\ commentId \in ShownCommentIds
  /\ comments' = [i \in 1..Len(comments) |-> DislikedComment(comments[i], commentId)]
  /\ IF comments' # comments
     THEN /\ dislikedLocally' = dislikedLocally \cup {commentId}
          /\ likedLocally' = likedLocally \ {commentId}
     ELSE UNCHANGED <<likedLocally, dislikedLocally>>
  /\ UNCHANGED <<numComments, commentInput, createInFlight, nextCommentId>>
  /\ CommentFrame

handleLikeComment(commentId) ==
  /\ commentId \in ShownCommentIds
  /\ comments' = [i \in 1..Len(comments) |-> LikedComment(comments[i], commentId)]
  /\ IF comments' # comments
     THEN /\ likedLocally' = likedLocally \cup {commentId}
          /\ dislikedLocally' = dislikedLocally \ {commentId}
     ELSE UNCHANGED <<likedLocally, dislikedLocally>>
  /\ UNCHANGED <<numComments, commentInput, createInFlight, nextCommentId>>
  /\ CommentFrame

\* createComment up to its await: nothing is sent for an empty comment
createComment ==
  /\ IF Trim(commentInput) = ""
     THEN UNCHANGED createInFlight
     ELSE /\ Len(createInFlight) < MaxInflight
          /\ (nextCommentId - Len(propComments) - 1) + Len(createInFlight) < MaxCreates
          /\ createInFlight' = Append(createInFlight, comments)
  /\ UNCHANGED <<comments, numComments, commentInput, nextCommentId,
                 likedLocally, dislikedLocally>>
  /\ CommentFrame

\* the comment built from the server's answer
NewComment == [id |-> nextCommentId, likeCount |-> 0, likedBy |-> {}]

\* createInFlight without its i-th call
Answered(i) ==
  [k \in 1..(Len(createInFlight) - 1) |->
     IF k < i THEN createInFlight[k] ELSE createInFlight[k + 1]]

\* createComment after its await, for the i-th awaited call: the new comment is
\* appended to the comments of the render the call was made in
CreateResponse(i, outcome) ==
  /\ i \in 1..Len(createInFlight)
  /\ createInFlight' = Answered(i)
  /\ IF outcome = data
     THEN /\ commentInput' = ""
          /\ numComments' = numComments + 1
          /\ comments' = Append(createInFlight[i], NewComment)
          /\ nextCommentId' = nextCommentId + 1
     ELSE UNCHANGED <<commentInput, numComments, comments, nextCommentId>>
  /\ UNCHANGED <<likedLocally, dislikedLocally>>
  /\ CommentFrame

NextComment ==
  \/ \E comment \in CommentInputs : handleCommentInput(comment)
  \/ \E commentId \in 1..(MaxComments + MaxCreates) : handleDislikeComment(commentId)
  \/ \E commentId \in 1..(MaxComments + MaxCreates) : handleLikeComment(commentId)
  \/ createComment
  \/ \E i \in 1..MaxInflight, outcome \in MutationOutcomes : CreateResponse(i, outcome)

PostIdle == LikeIdle /\ CommentIdle

(* ---------------------------- specifications --------------------------- *)
\* one closed card of a non-recurring event, for the specifications that leave it alone
CardIdle ==
  /\ CardInit
  /\ tz = 0
  /\ propStartDate = 1
  /\ propRule = NoRule
  /\ ~eventModalIsOpen


\* the components no step touches
PagesIdle == CalendarIdle /\ PostIdle

Init == CardInit /\ UtilsIdle /\ RoutesIdle /\ PagesIdle

Spec == Init /\ [][Next]_vars

InitUtils == CardIdle /\ UtilsInit /\ RoutesIdle /\ PagesIdle

SpecUtils == InitUtils /\ [][NextUtils]_vars

InitRoutes == CardIdle /\ UtilsIdle /\ RoutesInit /\ PagesIdle

SpecRoutes == InitRoutes /\ [][NextRoutes]_vars

\* the closed cards of a single event and of a weekly event of day 1, in a browser
\* on UTC
InitDelete ==
  /\ Init
  /\ tz = 0
  /\ propStartDate = 1
  /\ ~eventModalIsOpen
  /\ propRecurring => propRule[1].frequency = WEEKLY

SpecDelete == InitDelete /\ [][NextDelete]_vars

InitFilter == CardIdle /\ UtilsIdle /\ RoutesIdle /\ FilterInit /\ DateIdle /\ PostIdle

SpecFilter == InitFilter /\ [][NextFilter]_vars

InitCalendar == CardIdle /\ UtilsIdle /\ RoutesIdle /\ FilterIdle /\ DateInit /\ PostIdle

SpecCalendar == InitCalendar /\ [][NextCalendar]_vars

InitLike == CardIdle /\ UtilsIdle /\ RoutesIdle /\ CalendarIdle /\ LikeInit /\ CommentIdle

SpecLike == InitLike /\ [][NextLike]_vars

InitComment == CardIdle /\ UtilsIdle /\ RoutesIdle /\ CalendarIdle /\ LikeIdle /\ CommentInit

SpecComment == InitComment /\ [][NextComment]_vars

(* ------------------------------- claims -------------------------------- *)
\* the scope effect has run on the current change flags
ScopeEffectDone == ~RunScopeEffect

\* the scopes that are coherent with the change flags: allInstances is withdrawn
\* when the dates changed, thisInstance when the rule changed
LegalScopes(ruleChanged, datesChanged) ==
  (RecurringEventMutationType \ (IF datesChanged THEN {allInstances} ELSE {}))
    \ (IF ruleChanged THEN {thisInstance} ELSE {})

\* C1: once the scope effect has run with both instanceDatesChanged and
\* recurrenceRuleChanged true, the offered options are exactly
\* [thisAndFollowingInstances], that scope is selected and no choice is offered.
C1_BothChangedOnlyThisAndFollowing ==
  (ScopeEffectDone /\ instanceDatesChanged /\ recurrenceRuleChanged) =>
    /\ recurringEventUpdateOptions = <<thisAndFollowingInstances>>
    /\ recurringEventUpdateType = thisAndFollowingInstances
    /\ ~shouldShowRecurringEventUpdateOptions

\* C2: once the scope effect has run with instanceDatesChanged true, allInstances
\* is not among the offered options.
C2_DatesChangedWithdrawsAllInstances ==
  (ScopeEffectDone /\ instanceDatesChanged) =>
    allInstances \notin SeqToSet(recurringEventUpdateOptions)

\* C3: an update sent for a recurring submission carries the edited instance's
\* start date as recurrenceStartDate when its scope is thisAndFollowingInstances
\* and the dates or the rule changed, and the rule's own recurrenceStartDate in
\* every other case.
C3_RecurrenceStartDateOfUpdate ==
  (updateEventCall # <<>> /\ updateEventCall[1].recurring) =>
    updateEventCall[1].recurrenceStartDate =
      IF /\ updateEventCall[1].recurringEventUpdateType = thisAndFollowingInstances
         /\ (instanceDatesChanged \/ recurrenceRuleChanged)
      THEN updateEventCall[1].startDate
      ELSE FormatDate(recurrenceRuleState.recurrenceStartDate)

\* an update split the series at an instance that is not the series' first day
C3_Witness ==
  /\ updateEventCall # <<>>
  /\ updateEventCall[1].recurring
  /\ updateEventCall[1].recurringEventUpdateType = thisAndFollowingInstances
  /\ instanceDatesChanged
  /\ updateEventCall[1].recurrenceStartDate = FormatDate(eventStartDate)
  /\ FormatDate(eventStartDate) # FormatDate(recurrenceRuleState.recurrenceStartDate)

\* what a step does about submitting: the submit handler's two outcomes, and where
\* an update may be sent from
C4_SubmitStep ==
  /\ handleEventUpdate =>
       IF propRecurring
          /\ Cardinality(LegalScopes(recurrenceRuleChanged, instanceDatesChanged)) > 1
       THEN /\ recurringEventUpdateModalIsOpen'
            /\ updateInFlight' = updateInFlight
            /\ updateEventCall' = <<>>
       ELSE /\ updateInFlight' = updateInFlight + 1
            /\ updateEventCall' # <<>>
            /\ recurringEventUpdateModalIsOpen' = recurringEventUpdateModalIsOpen
            /\ (propRecurring /\ recurringchecked) =>
                 updateEventCall'[1].recurringEventUpdateType \in
                   LegalScopes(recurrenceRuleChanged, instanceDatesChanged)
  /\ updateInFlight' > updateInFlight =>
       \/ recurringEventUpdateModalIsOpen
       \/ ~propRecurring
       \/ Cardinality(LegalScopes(recurrenceRuleChanged, instanceDatesChanged)) = 1

C5_SelectedScopeIsOffered ==
  ScopeEffectDone => recurringEventUpdateType \in SeqToSet(recurringEventUpdateOptions)

\* the user picked a scope other than the default in the confirmation modal
C5_Witness ==
  /\ Settled
  /\ instanceDatesChanged /\ ~recurrenceRuleChanged
  /\ recurringEventUpdateType = thisAndFollowingInstances

\* C6: once the scope effect has run, the user is made to choose exactly when
\* more than one option is offered.
C6_ChoiceIffSeveralOptions ==
  ScopeEffectDone =>
    (shouldShowRecurringEventUpdateOptions <=> Len(recurringEventUpdateOptions) > 1)

\* C7: once the scope effect has run with recurrenceRuleChanged true, thisInstance
\* is neither offered nor selected.
C7_RuleChangedWithdrawsThisInstance ==
  (ScopeEffectDone /\ recurrenceRuleChanged) =>
    /\ thisInstance \notin SeqToSet(recurringEventUpdateOptions)
    /\ recurringEventUpdateType # thisInstance

\* the rule of an open recurring event was edited, the dates were not
C7_Witness ==
  /\ Settled /\ eventModalIsOpen /\ propRecurring
  /\ recurrenceRuleChanged /\ ~instanceDatesChanged
  /\ recurringEventUpdateType = allInstances

\* the scope effect's run on only the rule changed, and the state it leaves
C8_Step ==
  /\ (RunScopeEffect /\ ~instanceDatesChanged /\ recurrenceRuleChanged) =>
       recurringEventUpdateType' = thisAndFollowingInstances
  /\ (ScopeEffectDone' /\ ~instanceDatesChanged' /\ recurrenceRuleChanged') =>
       /\ recurringEventUpdateOptions' = <<thisAndFollowingInstances, allInstances>>
       /\ shouldShowRecurringEventUpdateOptions'

\* C8: when the scope effect runs with (instanceDatesChanged, recurrenceRuleChanged)
\* = (false, true) it resets the selection to thisAndFollowingInstances, whatever
\* was selected before, and for as long as the flags stay so the options are
\* [thisAndFollowingInstances, allInstances] and a choice is required.
C8_OnlyRuleChanged == [][C8_Step]_vars

\* only the rule of a recurring event is changed, after the dates had been too
C8_Witness ==
  /\ Settled /\ eventModalIsOpen /\ propRecurring
  /\ ~instanceDatesChanged /\ recurrenceRuleChanged
  /\ FormatDate(eventStartDate) = propStartDate
  /\ eventStartDate # NewDate(propStartDate)
  /\ recurringEventUpdateType = thisAndFollowingInstances

\* the scope effect's run on only the dates changed, and the state it leaves
C9_Step ==
  /\ (RunScopeEffect /\ instanceDatesChanged /\ ~recurrenceRuleChanged) =>
       recurringEventUpdateType' = thisInstance
  /\ (ScopeEffectDone' /\ instanceDatesChanged' /\ ~recurrenceRuleChanged') =>
       /\ recurringEventUpdateOptions' = <<thisInstance, thisAndFollowingInstances>>
       /\ shouldShowRecurringEventUpdateOptions'

\* C9: when the scope effect runs with (instanceDatesChanged, recurrenceRuleChanged)
\* = (true, false) it resets the selection to thisInstance, whatever was selected
\* before, and for as long as the flags stay so the options are [thisInstance,
\* thisAndFollowingInstances] and a choice is required.
C9_OnlyDatesChanged == [][C9_Step]_vars

\* only the end date of an open recurring event is changed
C9_Witness ==
  /\ Settled /\ eventModalIsOpen /\ propRecurring
  /\ instanceDatesChanged /\ ~recurrenceRuleChanged
  /\ FormatDate(eventStartDate) = propStartDate
  /\ FormatDate(eventEndDate) # propEndDate
  /\ recurringEventUpdateType = thisInstance

\* the constructed state, the scope effect's run on nothing changed, and the
\* state it leaves
C10_Step ==
  /\ ~mounted =>
       /\ recurringEventUpdateType = thisInstance
       /\ recurringEventUpdateOptions = AllScopes
       /\ shouldShowRecurringEventUpdateOptions
  /\ (RunScopeEffect /\ ~instanceDatesChanged /\ ~recurrenceRuleChanged) =>
       recurringEventUpdateType' = thisInstance
  /\ (ScopeEffectDone' /\ ~instanceDatesChanged' /\ ~recurrenceRuleChanged') =>
       /\ recurringEventUpdateOptions' = AllScopes
       /\ shouldShowRecurringEventUpdateOptions'

\* C10: after construction, and whenever the scope effect runs with both flags
\* false, thisInstance is selected; for as long as both flags are false the options
\* are [thisInstance, thisAndFollowingInstances, allInstances] and a choice is
\* required.
C10_NothingChanged == [][C10_Step]_vars

\* the edits of an open recurring event are back at the persisted values
C10_Witness ==
  /\ Settled /\ eventModalIsOpen /\ propRecurring
  /\ ~instanceDatesChanged /\ ~recurrenceRuleChanged
  /\ eventStartDate # NewDate(propStartDate)
  /\ recurringEventUpdateType = thisInstance

\* C11 as stated: every update mutation sent for an event that is persisted as
\* recurring carries one of the three mutation types
C11_RecurringEventCarriesType ==
  (updateEventCall # <<>> /\ propRecurring) =>
    updateEventCall[1].recurringEventUpdateType \in RecurringEventMutationType

\* C11: an update mutation sent with the recurring box checked carries the selected
\* scope, which is one of the three mutation types and one of the offered options;
\* sent with the box unchecked it carries no type, also for an event that is
\* persisted as recurring
C11_UpdateTypeOfUpdate ==
  updateEventCall # <<>> =>
    IF updateEventCall[1].recurring
    THEN /\ updateEventCall[1].recurringEventUpdateType \in RecurringEventMutationType
         /\ updateEventCall[1].recurringEventUpdateType = recurringEventUpdateType
         /\ recurringEventUpdateType \in SeqToSet(recurringEventUpdateOptions)
    ELSE updateEventCall[1].recurringEventUpdateType = Undefined

\* a recurring update is sent with a scope the user picked in the confirmation modal
C11_Witness ==
  /\ updateEventCall # <<>>
  /\ propRecurring
  /\ updateEventCall[1].recurring
  /\ editedSinceOpen
  /\ recurringEventUpdateModalIsOpen
  /\ updateEventCall[1].recurringEventUpdateType = allInstances

\* C12: whenever the modal of a recurring event is open, its effects have run and
\* the user has not edited anything since it was opened, the edited dates and the
\* rule state show the persisted calendar dates and rule, both change flags are
\* false and all three scopes are offered with thisInstance selected (checked for a
\* browser on UTC, where new Date and format agree on the calendar day)
C12_SessionSeededOnOpen ==
  (Settled /\ eventModalIsOpen /\ ~editedSinceOpen /\ propRecurring /\ tz = 0) =>
    /\ FormatDate(eventStartDate) = propStartDate
    /\ FormatDate(eventEndDate) = propEndDate
    /\ RuleOfState(recurrenceRuleState) = propRule[1]
    /\ ~instanceDatesChanged
    /\ ~recurrenceRuleChanged
    /\ recurringEventUpdateOptions = AllScopes
    /\ recurringEventUpdateType = thisInstance

\* the change flags are the ones of the current form values
FlagsCurrent ==
  /\ instanceDatesChanged = InstanceDatesChangedNow
  /\ recurrenceRuleChanged = RecurrenceRuleChangedNow

\* the offered options and the choice flag are what the scope effect sets for the
\* current change flags
ScopeCurrent ==
  LET s == ScopeOptionsEffect(CurrentScope, recurrenceRuleChanged, instanceDatesChanged)
  IN /\ ScopeEffectDone
     /\ recurringEventUpdateOptions = s.options
     /\ shouldShowRecurringEventUpdateOptions = s.show

C13_Step ==
  (handleEventUpdate \/ updateEventHandler) => (FlagsCurrent /\ ScopeCurrent)

\* C13: every submit (handleEventUpdate, updateEventHandler) is handled in a state
\* whose change flags were recomputed from the current start date, end date and rule
\* state and whose scope options were recomputed from those flags
C13_SubmitSeesCurrentFlags == [][C13_Step]_vars

\* an update is sent after the end date was moved to another day
C13_Witness ==
  /\ updateEventCall # <<>>
  /\ editedSinceOpen
  /\ FormatDate(eventEndDate) # propEndDate
  /\ FormatDate(eventStartDate) = propStartDate
  /\ instanceDatesChanged
  /\ ~recurringEventUpdateModalIsOpen

C14_Step ==
  /\ responseEffects'.errorHandler =>
       /\ ~responseEffects'.toast
       /\ ~responseEffects'.refetchEvents
       /\ UNCHANGED <<eventModalIsOpen, recurringEventUpdateModalIsOpen>>
       /\ UNCHANGED <<formVars, flagVars, scopeVars>>
  /\ updateInFlight' < updateInFlight =>
       /\ responseEffects'.refetchEvents => responseEffects'.toast
       /\ (eventModalIsOpen /\ ~eventModalIsOpen') => responseEffects'.toast
       /\ (recurringEventUpdateModalIsOpen /\ ~recurringEventUpdateModalIsOpen') =>
            responseEffects'.toast
       /\ responseEffects'.toast =>
            ~eventModalIsOpen' /\ ~recurringEventUpdateModalIsOpen'

\* C14: the step in which a thrown update mutation is handled calls errorHandler and
\* nothing else: no success toast, no refetch, both modals, the edited dates, the
\* rule state, the change flags and the scope as before; a response closes a modal
\* or refetches the events only when it brought data, together with the success toast
C14_FailureChangesNothing == [][C14_Step]_vars

\* a failed update was handed to errorHandler with both modals still open
C14_Witness ==
  /\ responseEffects.errorHandler
  /\ eventModalIsOpen
  /\ recurringEventUpdateModalIsOpen
  /\ instanceDatesChanged

\* hasRecurrenceRuleChanged has returned
RuleChangedReturned ==
  Len(utilResult) > 0 /\ utilCall[1] = "hasRecurrenceRuleChanged"

\* C15: hasRecurrenceRuleChanged(r, r) is false for every rule r of the data model,
\* and hasRecurrenceRuleChanged is true when exactly one of the original and the
\* edited rule is absent
C15_SameRuleUnchangedAbsentChanged ==
  RuleChangedReturned =>
    /\ (utilCall[2] # NoRule /\ utilCall[2] = utilCall[3]) => utilResult[1] = FALSE
    /\ ((utilCall[2] = NoRule) # (utilCall[3] = NoRule)) => utilResult[1] = TRUE

\* a rule was compared with no original rule: recurrence was turned on
C15_Witness ==
  /\ RuleChangedReturned
  /\ utilCall[2] = NoRule
  /\ utilCall[3] # NoRule
  /\ utilResult[1] = TRUE

\* haveInstanceDatesChanged has returned
DatesChangedReturned ==
  Len(utilResult) > 0 /\ utilCall[1] = "haveInstanceDatesChanged"

\* C16: haveInstanceDatesChanged(originalStart, originalEnd, editedStart, editedEnd)
\* is true exactly when the edited start date differs from the original start date
\* or the edited end date differs from the original end date
C16_DatesChangedIffEitherDiffers ==
  DatesChangedReturned =>
    utilResult[1] = (utilCall[2] # utilCall[4] \/ utilCall[3] # utilCall[5])

\* only the end date was edited, and the dates are reported as changed
C16_Witness ==
  /\ DatesChangedReturned
  /\ utilCall[2] = utilCall[4]
  /\ utilCall[3] # utilCall[5]
  /\ utilResult[1] = TRUE

\* the two rules agree on every field the comparison reads
AgreeOnComparedFields(original, edited) ==
  /\ original.frequency = edited.frequency
  /\ original.interval = edited.interval
  /\ SeqToSet(original.weekDays) = SeqToSet(edited.weekDays)
  /\ original.recurrenceEndDate = edited.recurrenceEndDate
  /\ original.count = edited.count
  /\ original.weekDayOccurenceInMonth = edited.weekDayOccurenceInMonth

\* C17: two rules that agree on frequency, interval, weekDays as a set,
\* recurrenceEndDate, count and weekDayOccurenceInMonth are reported as unchanged,
\* whatever their recurrenceStartDate
C17_StartDateIgnored ==
  (RuleChangedReturned /\ utilCall[2] # NoRule /\ utilCall[3] # NoRule) =>
    (AgreeOnComparedFields(utilCall[2][1], utilCall[3][1]) => utilResult[1] = FALSE)

\* two rules with different start dates and the same week days in another order
\* were reported as unchanged
C17_Witness ==
  /\ RuleChangedReturned
  /\ utilCall[2] # NoRule
  /\ utilCall[3] # NoRule
  /\ utilCall[2][1].recurrenceStartDate # utilCall[3][1].recurrenceStartDate
  /\ utilCall[2][1].weekDays # utilCall[3][1].weekDays
  /\ utilResult[1] = FALSE

\* getRecurrenceRuleText has returned
RuleTextReturned ==
  Len(utilResult) > 0 /\ utilCall[1] = "getRecurrenceRuleText"

IsTerminationClause(clause) == clause[1] \in {"until", "for"}

\* C18: the rule text has exactly one termination clause, the until clause, when the
\* rule has a recurrenceEndDate, also when it has a count; it has exactly the for
\* clause when it has a count and no end date; it has none when it has neither
C18_OneTerminationClause ==
  RuleTextReturned =>
    LET rule == utilCall[2]
        termination == SelectSeq(utilResult[1], IsTerminationClause)
    IN IF rule.recurrenceEndDate # Null
       THEN termination = <<<<"until", rule.recurrenceEndDate>>>>
       ELSE IF rule.count # Null
            THEN termination = <<<<"for", rule.count>>>>
            ELSE termination = <<>>

\* the text of a rule with an end date and a count ends with the until clause
C18_Witness ==
  /\ RuleTextReturned
  /\ utilCall[2].recurrenceEndDate # Null
  /\ utilCall[2].count # Null
  /\ utilResult[1][Len(utilResult[1])][1] = "until"

\* the targets are those of the initial state, in their order, with id as the last
\* segment of every url but '/orglist'
TargetsOfOrg(targets, id) ==
  /\ Len(targets) = Len(INITIAL_STATE.targets)
  /\ \A i \in 1..Len(targets) :
       /\ targets[i].name = INITIAL_STATE.targets[i].name
       /\ targets[i].url[1] = components[i].comp_id
       /\ IF targets[i].name = "My Organizations"
          THEN targets[i].url = <<"orglist">>
          ELSE Len(targets[i].url) = 2 /\ targets[i].url[2] = id

C19_Step ==
  routesAction' # <<>> =>
    IF routesAction'[1].type = UPDATE_TARGETS
    THEN /\ TargetsOfOrg(routes'.targets, routesAction'[1].payload)
         /\ routes'.components = INITIAL_STATE.components
    ELSE /\ routes' = routes
         /\ routes = INITIAL_STATE => routes' = INITIAL_STATE

\* C19: the reducer answers UPDATE_TARGETS with the targets of the initial state, in
\* their order, each url ending in the payload except '/orglist', and with the
\* components of the initial state; it answers any other action type with the state
\* it was given, the initial state when it was given that
C19_UpdateTargets == [][C19_Step]_vars

\* UPDATE_TARGETS with an organization id was dispatched: the dashboard url ends in it
C19_Witness ==
  /\ routesAction # <<>>
  /\ routesAction[1].type = UPDATE_TARGETS
  /\ routesAction[1].payload # Null
  /\ routes.targets[2].url = <<"orgdash", routesAction[1].payload>>
  /\ routes.targets[1].url = <<"orglist">>

DeleteSent == deleteInFlight' > deleteInFlight

C21_Step ==
  /\ DeleteSent =>
       /\ deleteEventCall' # <<>>
       /\ deleteEventCall'[1].recurringEventDeleteType # Undefined <=> propRecurring
       /\ propRecurring =>
            deleteEventCall'[1].recurringEventDeleteType = recurringEventDeleteType
  /\ recurringEventDeleteType' # recurringEventDeleteType =>
       /\ eventDeleteModalIsOpen
       /\ UNCHANGED <<formVars, flagVars, scopeVars>>
  /\ (formVars' # formVars \/ flagVars' # flagVars \/ scopeVars' # scopeVars) =>
       UNCHANGED recurringEventDeleteType

\* C21: a delete mutation carries recurringEventDeleteType exactly when the
\* persisted event is recurring, and its value is then the delete scope selected at
\* that moment, which is thisInstance after construction; the selected delete scope
\* changes only in a step taken in the open delete modal that leaves the dates, the
\* rule, the change flags and the update scope alone, and no step that changes one
\* of those changes the delete scope
C21_DeleteTypeOfDelete ==
  /\ recurringEventDeleteType = thisInstance
  /\ [][C21_Step]_vars

\* a recurring event is deleted with a non-default delete scope after its start date
\* was edited, while the update scope is a different one
C21_Witness ==
  /\ deleteEventCall # <<>>
  /\ propRecurring
  /\ recurringchecked = FALSE
  /\ instanceDatesChanged
  /\ deleteEventCall[1].recurringEventDeleteType = allInstances
  /\ recurringEventUpdateType = thisInstance

\* C24: at most one update mutation of the event modal is in flight at any time
C24_OneUpdateInFlight == updateInFlight <= 1

\* a step in which an awaited update mutation completes
UpdateCompleted == updateInFlight' < updateInFlight

\* C25: every update mutation that completes ends either in the success path (the
\* success toast, both modals closed, the events refetched) or in errorHandler
C25_CompletedUpdateIsHandled ==
  [][UpdateCompleted =>
       \/ /\ responseEffects'.toast
          /\ responseEffects'.refetchEvents
          /\ ~eventModalIsOpen'
          /\ ~recurringEventUpdateModalIsOpen'
       \/ responseEffects'.errorHandler]_vars

\* handleEventUpdate asks for a confirmation before it sends
ConfirmationRequired == propRecurring /\ shouldShowRecurringEventUpdateOptions

\* C26: a step that toggles the recurring checkbox changes neither of the two change
\* flags, nor the offered scopes, the selected scope or whether a submit asks for a
\* confirmation, and leaves no effect to run that could change them afterwards
C26_CheckboxChangesNothingElse ==
  [][recurringchecked' # recurringchecked =>
       /\ UNCHANGED <<flagVars, scopeVars>>
       /\ ConfirmationRequired' = ConfirmationRequired
       /\ Settled']_vars

\* the checkbox of a recurring event was unchecked after a date edit and the pick of
\* a non-default scope
C26_Witness ==
  /\ propRecurring
  /\ ~recurringchecked
  /\ eventModalIsOpen
  /\ Settled
  /\ instanceDatesChanged
  /\ ~recurrenceRuleChanged
  /\ recurringEventUpdateType = thisAndFollowingInstances
  /\ ConfirmationRequired

\* the events of a list
EventsOf(list) == {list[i] : i \in 1..Len(list)}

\* the user is among the admins of the organization
IsOrgAdmin == Len(orgData) > 0 /\ userId \in orgData[1].admins

\* C22: once filtered, the events shown are: all of them for a SUPERADMIN; for an
\* ADMIN every public event, and a non-public one exactly when the user is among
\* the organization's admins; for any other user every public event, and a
\* non-public one exactly when the user is among its attendees; and never an event
\* that is not in the input
C22_FilterByRole ==
  Len(events) > 0 =>
    LET shown == EventsOf(events[1])
    IN /\ shown \subseteq EventsOf(eventData)
       /\ \A event \in EventsOf(eventData) :
            /\ event.isPublic => event \in shown
            /\ userRole = SUPERADMIN => event \in shown
            /\ (userRole = ADMIN /\ ~event.isPublic) =>
                 (event \in shown <=> IsOrgAdmin)
            /\ (userRole \notin {SUPERADMIN, ADMIN} /\ ~event.isPublic) =>
                 (event \in shown <=> userId \in event.attendees)

\* an admin of another organization who attends a non-public event is not shown it,
\* next to a public event that is shown
C22_Witness ==
  /\ Len(events) > 0
  /\ userRole = ADMIN
  /\ ~IsOrgAdmin
  /\ Len(eventData) = 2
  /\ ~eventData[1].isPublic
  /\ userId \in eventData[1].attendees
  /\ eventData[2].isPublic
  /\ events[1] = <<eventData[2]>>

\* C28: once filtered, no event is shown twice
C28_NoEventTwice ==
  Len(events) > 0 =>
    \A i, j \in 1..Len(events[1]) : events[1][i] = events[1][j] => i = j

\* C27: the calendar's year, month and date always form a real date: the month is
\* one of 0..11 and the date one of the days of that month
C27_RealDate ==
  /\ currentMonth \in 0..11
  /\ currentDate \in 1..DaysInMonth(currentYear, currentMonth)

\* 1 for a true flag, 0 for a false one
Indicator(flag) == IF flag THEN 1 ELSE 0

\* C23: a like toggle whose mutation returns data changes the like count by exactly
\* one in the direction of the toggle and flips isLikedByUser; one whose mutation
\* throws or returns no data changes neither
C23_ToggleAppliedOnData ==
  [][toggleResponse' # <<>> =>
       IF toggleResponse'[1].outcome = data
       THEN /\ likes' = likes + (IF toggleResponse'[1].mutation = "likePost"
                                 THEN 1 ELSE 0 - 1)
            /\ isLikedByUser' = ~isLikedByUser
       ELSE UNCHANGED <<likes, isLikedByUser>>]_vars

\* C29: the like count differs from the initial one by exactly the difference
\* between the current and the initial liked flag
C29_LikesFollowFlag ==
  likes - propLikeCount = Indicator(isLikedByUser) - Indicator(propLiked)

\* the comment with the given id is in the list, liked by the user or not
Reflected(commentId, liked) ==
  \E i \in 1..Len(comments) :
    /\ comments[i].id = commentId
    /\ (PostUserId \in comments[i].likedBy) = liked

\* C30: no update of the comments is lost: every comment whose create returned data
\* is in the list, the last like or dislike applied to a comment is still reflected
\* in it, and numComments has grown by the number of comments added to the list
C30_NoCommentUpdateLost ==
  /\ \A commentId \in (Len(propComments) + 1)..(nextCommentId - 1) :
       \E i \in 1..Len(comments) : comments[i].id = commentId
  /\ \A commentId \in likedLocally : Reflected(commentId, TRUE)
  /\ \A commentId \in dislikedLocally : Reflected(commentId, FALSE)
  /\ numComments - propCommentCount = Len(comments) - Len(propComments)

====
